---- MODULE Spec2Model ----
(***************************************************************************)
(* unipaxpy: the SIF reader of unipax/graph.py and the graph query of      *)
(* unipax/api.py (UniPaxRestGraphEndpoint.query).                          *)
(*                                                                         *)
(* SifSpec  : read_sif reading a file line by line and building the graph. *)
(* Spec     : two callers running UniPaxRestGraphEndpoint.query            *)
(*            concurrently against one temporary directory.                *)
(***************************************************************************)
EXTENDS Integers, Sequences, FiniteSets, TLC

VARIABLES
    \* ---- read_sif (graph.py) ----
    text,       \* the lines of the file consumed so far by `for line in sif`
    sif,        \* the locals of read_sif: nodes, edges, interactions, source
    result,     \* what read_sif has returned, if it has
    \* ---- UniPaxRestGraphEndpoint.query (api.py) ----
    now,        \* the wall clock, in ticks
    fs,         \* the temporary directory: path -> file
    pc,         \* per caller: the line of query it is about to run
    call,       \* per caller: the arguments of its query call
    tmpfile,    \* per caller: the local `tmpfile`
    response,   \* per caller: the HTTP response its download received
    graph,      \* per caller: the local `graph`
    invoked,    \* per caller: the readers query has called, in order
    outcome     \* per caller: how the call ended

sifvars   == <<text, sif, result>>
queryvars == <<now, fs, pc, call, tmpfile, response, graph, invoked, outcome>>
vars      == <<text, sif, result,
               now, fs, pc, call, tmpfile, response, graph, invoked, outcome>>

----------------------------------------------------------------------------
(* Bounds of the model *)

MaxSize    == 9      \* size of a SIF file: its tokens plus its lines
MaxTime    == 2      \* clock ticks the model lets pass

----------------------------------------------------------------------------
(* Characters, tokens and lines.  A line is a sequence of characters, a    *)
(* token is a non-empty sequence of non-whitespace characters.            *)

Range(s) == {s[i] : i \in DOMAIN s}

IsInjective(s) == \A i, j \in DOMAIN s : s[i] = s[j] => i = j

Whitespace == {" ", "\t", "\n"}

IdA   == <<"A">>
IdB   == <<"B">>
RelPP == <<"p", "p">>
RelQ  == <<"q">>

Ids  == {IdA, IdB}
Rels == {RelPP, RelQ}

RECURSIVE SeqsUpTo(_, _)
SeqsUpTo(S, n) ==
    IF n = 0 THEN {<<>>}
    ELSE LET shorter == SeqsUpTo(S, n - 1)
         IN  shorter \cup {Append(s, x) : s \in shorter, x \in S}

\* The token sequences of at most n tokens the input lines are drawn from:
\* blank, one token, two tokens, and source relation target+.
Records(n) ==
    {<<>>}
    \cup (IF n >= 1 THEN {<<a>> : a \in Ids} ELSE {})
    \cup (IF n >= 2
          THEN {<<a, r>> \o ts : a \in Ids, r \in Rels, ts \in SeqsUpTo(Ids, n - 2)}
          ELSE {})

RECURSIVE Join(_, _)
Join(items, sep) ==
    IF items = <<>> THEN <<>>
    ELSE IF Len(items) = 1 THEN items[1]
    ELSE items[1] \o sep \o Join(Tail(items), sep)

\* A line of the file as Python's file iteration yields it: it ends in "\n".
\* A padded line has leading blanks and a tab-and-blank run between tokens.
Render(items, padded) ==
    IF padded THEN <<" ">> \o Join(items, <<"\t", " ">>) \o <<" ", "\n">>
    ELSE Join(items, <<" ">>) \o <<"\n">>

\* The lines of at most n tokens
Lines(n) == {Render(items, padded) : items \in Records(n), padded \in BOOLEAN}

----------------------------------------------------------------------------
(* graph.py line 83: the tokenizer                                         *)

\* re.split('\s+', line): the pieces between maximal whitespace runs, empty
\* pieces included (before a leading run, after a trailing run).
RECURSIVE ReSplitFrom(_, _, _)
ReSplitFrom(line, cur, inRun) ==
    IF line = <<>> THEN <<cur>>
    ELSE IF Head(line) \in Whitespace
         THEN IF inRun THEN ReSplitFrom(Tail(line), cur, TRUE)
              ELSE <<cur>> \o ReSplitFrom(Tail(line), <<>>, TRUE)
         ELSE ReSplitFrom(Tail(line), Append(cur, Head(line)), FALSE)

ReSplit(line) == ReSplitFrom(line, <<>>, FALSE)

\* str.strip(): leading and trailing whitespace removed.
RECURSIVE LStrip(_)
LStrip(s) ==
    IF s # <<>> /\ Head(s) \in Whitespace THEN LStrip(Tail(s)) ELSE s

RECURSIVE RStrip(_)
RStrip(s) ==
    IF s # <<>> /\ s[Len(s)] \in Whitespace
    THEN RStrip(SubSeq(s, 1, Len(s) - 1))
    ELSE s

Strip(s) == RStrip(LStrip(s))

NonEmpty(item) == item # <<>>

\* [item.strip() for item in re.split('\s+', line) if item]
Tokenize(line) ==
    LET kept == SelectSeq(ReSplit(line), NonEmpty)
    IN  [i \in DOMAIN kept |-> Strip(kept[i])]

----------------------------------------------------------------------------
(* graph.py lines 78-91: the loop body of read_sif                         *)

\* A local that no assignment has bound yet.  No token is the empty sequence.
Unbound == <<>>

NoError == "none"

\* lines 78-80, and `source` before any assignment
SifLocals0 ==
    [nodes |-> {}, edges |-> <<>>, interactions |-> <<>>,
     source |-> Unbound, error |-> NoError]

\* line 84 as it would be if it took every line without a target as
\* isolated
IsIsolatedTwo(items) == Len(items) <= 2

\* line 84
IsIsolated(items) == Len(items) = 1

\* line 90: [(source, target) for target in targets]
SifEdges(source, targets) ==
    [i \in DOMAIN targets |-> <<source, targets[i]>>]

\* line 91: len(targets) * [interaction]
Repeat(n, x) == [i \in 1..n |-> x]

\* One iteration of `for line in sif` (lines 83-91) on the locals st.
SifLine(st, line) ==
    LET items == Tokenize(line)
    IN  IF IsIsolated(items)
        THEN \* line 85 reads `source`, not items[0]
             IF st.source = Unbound
             THEN [st EXCEPT !.error = "UnboundLocalError"]
             ELSE [st EXCEPT !.nodes = @ \cup {st.source}]
        ELSE IF Len(items) < 2
        THEN \* line 87: items[0] (or items[1]) of a shorter list
             [st EXCEPT !.error = "IndexError"]
        ELSE LET source      == items[1]
                 interaction == items[2]
                 targets     == SubSeq(items, 3, Len(items))
             IN  [st EXCEPT
                    !.source       = source,
                    !.nodes        = (@ \cup {source}) \cup Range(targets),
                    !.edges        = @ \o SifEdges(source, targets),
                    !.interactions = @ \o Repeat(Len(targets), interaction)]

----------------------------------------------------------------------------
(* graph.py lines 92-100: building the igraph graph                        *)

\* list(nodes): the elements of the set, each once, in the set's iteration
\* order.  The order of a set of str depends on the interpreter's string
\* hashing, so every order is possible.
ListOfSet(S) ==
    {s \in [1..Cardinality(S) -> S] : IsInjective(s)}

\* list.index(x) as it would be if positions were counted from one
ListIndexOneBased(list, x) ==
    CHOOSE i \in DOMAIN list : list[i] = x /\ \A j \in 1..(i - 1) : list[j] # x

\* list.index(x): zero-based position of the first occurrence
ListIndex(list, x) ==
    (CHOOSE i \in DOMAIN list : list[i] = x /\ \A j \in 1..(i - 1) : list[j] # x) - 1

NoGraph == [kind |-> "none"]

\* lines 93-100 for one iteration order `order` of the node set
BuildGraph(st, order, directed) ==
    LET node2index == [node \in Range(order) |-> ListIndex(order, node)]
    IN  [kind        |-> "graph",
         directed    |-> directed,
         vs          |-> order,
         es          |-> [i \in DOMAIN st.edges |->
                            <<node2index[st.edges[i][1]], node2index[st.edges[i][2]]>>],
         interaction |-> st.interactions]

\* The name of the vertex with index i (graph.vs[i]['name'])
VertexName(g, i) == g.vs[i + 1]

----------------------------------------------------------------------------
(* read_sif as a process: one line per step, then the graph.               *)

SifInit ==
    /\ text = <<>>
    /\ sif = SifLocals0
    /\ result = NoGraph

Reading == sif.error = NoError /\ result = NoGraph

\* The size of the lines read: their tokens, and one for each line
RECURSIVE SizeOf(_)
SizeOf(lines) ==
    IF lines = <<>> THEN 0
    ELSE Len(Tokenize(Head(lines))) + 1 + SizeOf(Tail(lines))

\* The lines the file can continue with
NextLines == Lines(MaxSize - SizeOf(text) - 1)

\* `for line in sif` yields a line with exactly one token (lines 83-86)
SifIsolatedLine ==
    /\ Reading
    /\ SizeOf(text) < MaxSize
    /\ \E line \in NextLines :
         /\ IsIsolated(Tokenize(line))
         /\ text' = Append(text, line)
         /\ sif' = SifLine(sif, line)
    /\ UNCHANGED result

\* `for line in sif` yields any other line (lines 83-84, 87-91)
SifRecordLine ==
    /\ Reading
    /\ SizeOf(text) < MaxSize
    /\ \E line \in NextLines :
         /\ ~IsIsolated(Tokenize(line))
         /\ text' = Append(text, line)
         /\ sif' = SifLine(sif, line)
    /\ UNCHANGED result

\* end of file: lines 92-100
SifReturn ==
    /\ Reading
    /\ \E order \in ListOfSet(sif.nodes) :
         result' = BuildGraph(sif, order, TRUE)
    /\ UNCHANGED <<text, sif>>

----------------------------------------------------------------------------
(* read_sif as a function of the whole file, as query calls it             *)

RECURSIVE SifRunFrom(_, _)
SifRunFrom(st, lines) ==
    IF lines = <<>> \/ st.error # NoError THEN st
    ELSE SifRunFrom(SifLine(st, Head(lines)), Tail(lines))

SifRun(lines) == SifRunFrom(SifLocals0, lines)

----------------------------------------------------------------------------
(* How a call ends, and the values it handles                              *)

Running     == [kind |-> "running"]
Return(v)   == [kind |-> "return", value |-> v]
Raise(e)    == [kind |-> "raise", error |-> e]

\* Python's None
None == [kind |-> "None"]

\* What igraph's Read_GML / Read_GraphML make of a file: igraph is not part
\* of the repository, its graph is a function of the reader and the bytes.
IgraphGraph(reader, content) ==
    [kind |-> "igraph", reader |-> reader, content |-> content]

NoReader == "none"

\* A file: its content, or no file at that path.
NoFile == [exists |-> FALSE, content |-> <<>>]
File(content) == [exists |-> TRUE, content |-> content]

\* graph.py: what a reader can do with the file at the path it is given.
\*   read_gml, read_graphml (lines 26, 61): igraph's graph of the content, or
\*     igraph's error (always so when there is no file)
\*   read_lemon (lines 44-45): `pass`, that is None, the file is not opened
\*   read_sif (lines 78-100): open() fails when there is no file
ReaderOutcomes(reader, file) ==
    CASE reader \in {"read_gml", "read_graphml"} ->
           IF file.exists
           THEN {Return(IgraphGraph(reader, file.content)), Raise("igraph error")}
           ELSE {Raise("igraph error")}
      [] reader = "read_lemon" -> {Return(None)}
      [] reader = "read_sif" ->
           IF ~file.exists THEN {Raise("FileNotFoundError")}
           ELSE LET st == SifRun(file.content)
                IN  IF st.error # NoError THEN {Raise(st.error)}
                    ELSE {Return(BuildGraph(st, order, TRUE)) :
                             order \in ListOfSet(st.nodes)}

----------------------------------------------------------------------------
(* api.py: the graph query                                                 *)

Callers == {"c1", "c2"}

\* api.py:129, the one status _get accepts
HttpOk == 200

\* The statuses the server may answer with
StatusCodes == {HttpOk, 404}

\* The clock ticks twice a second; time_stamp() has the resolution of a second.
TicksPerSecond == 2

\* api.py:38-42  time.strftime('%Y%m%d%H%M%S', time.gmtime())
time_stamp(t) == t \div TicksPerSecond

\* api.py:29, the one temporary directory of every UniPaxRestApi
TmpDir == "~/.unipax/tmp"

\* The values of the `format` parameter a caller may pass; the server
\* documents gml | sif | lemon | gmx | graphml (api.py:358).
FormatTags == {"gml", "graphml", "lemon", "sif", "gmx"}

NoParams == [k \in {} |-> "gml"]

ParamSets == {NoParams} \cup {[format |-> f] : f \in FormatTags}

\* api.py:365, 413: the _append of two of the graph endpoints
Appends == {"/regulatory", "/ppi"}

\* api.py:20, 81, 100, 315: the url of a graph endpoint
Url(append) == <<"http://unipax.informatik.uni-tuebingen.de", "/graph", append>>

\* dict.get(key, default)
DictGet(params, key, default) ==
    IF key \in DOMAIN params THEN params[key] ELSE default

\* api.py:330
TmpFileName(dir, t, params) ==
    <<dir, "unipax_tmp_", time_stamp(t), ".", DictGet(params, "format", "gml")>>

\* The chain as it would be if line 332 tested only params['format'] == 'gml'
DispatchNoDefault(params) ==
    IF "format" \in DOMAIN params /\ params["format"] = "gml" THEN "read_gml"
    ELSE IF "format" \notin DOMAIN params THEN NoReader
    ELSE IF params["format"] = "graphml" THEN "read_graphml"
    ELSE IF params["format"] = "lemon" THEN "read_lemon"
    ELSE IF params["format"] = "sif" THEN "read_sif"
    ELSE NoReader

\* api.py:332-339: the reader the if/elif chain calls, if any
Dispatch(params) ==
    IF "format" \notin DOMAIN params \/ params["format"] = "gml" THEN "read_gml"
    ELSE IF params["format"] = "graphml" THEN "read_graphml"
    ELSE IF params["format"] = "lemon" THEN "read_lemon"
    ELSE IF params["format"] = "sif" THEN "read_sif"
    ELSE NoReader

\* The bodies the server may answer with
Bodies ==
    { <<Render(<<IdA, RelPP, IdB>>, FALSE)>>,
      <<Render(<<IdB, RelQ, IdA>>, FALSE)>>,
      <<Render(<<>>, FALSE)>> }

NoCall     == [append |-> "", params |-> NoParams]
NoResponse == [url |-> <<>>, params |-> NoParams, status_code |-> 0, content |-> <<>>]
NoPath     == <<>>

QueryInit ==
    /\ now = 0
    /\ fs = [path \in {} |-> [content |-> <<>>, writer |-> "c1"]]
    /\ pc = [c \in Callers |-> "idle"]
    /\ call = [c \in Callers |-> NoCall]
    /\ tmpfile = [c \in Callers |-> NoPath]
    /\ response = [c \in Callers |-> NoResponse]
    /\ graph = [c \in Callers |-> Unbound]
    /\ invoked = [c \in Callers |-> <<>>]
    /\ outcome = [c \in Callers |-> Running]

\* The file at a path of the temporary directory
FileAt(path) ==
    IF path \in DOMAIN fs THEN File(fs[path].content) ELSE NoFile

\* The clock advances.
Tick ==
    /\ now < MaxTime
    /\ now' = now + 1
    /\ UNCHANGED <<fs, pc, call, tmpfile, response, graph, invoked, outcome>>

\* A caller calls query(**params) on a graph endpoint: line 330.
QueryBegin(c) ==
    /\ pc[c] = "idle"
    /\ \E append \in Appends, params \in ParamSets :
         /\ call' = [call EXCEPT ![c] = [append |-> append, params |-> params]]
         /\ tmpfile' = [tmpfile EXCEPT ![c] = TmpFileName(TmpDir, now, params)]
    /\ pc' = [pc EXCEPT ![c] = "download"]
    /\ UNCHANGED <<now, fs, response, graph, invoked, outcome>>

\* Line 331: self.download(tmpfile, **params), api.py:121-143.
\* _get requests the endpoint's url with the caller's params and raises
\* UniPaxException unless the status is 200; otherwise download opens the
\* path for writing and writes the body.
QueryDownload(c) ==
    /\ pc[c] = "download"
    /\ \E status \in StatusCodes, body \in Bodies :
         /\ response' = [response EXCEPT ![c] =
                            [url |-> Url(call[c].append), params |-> call[c].params,
                             status_code |-> status, content |-> body]]
         /\ IF status # HttpOk
            THEN /\ outcome' = [outcome EXCEPT ![c] = Raise("UniPaxException")]
                 /\ pc' = [pc EXCEPT ![c] = "done"]
                 /\ UNCHANGED fs
            ELSE /\ fs' = [path \in DOMAIN fs \cup {tmpfile[c]} |->
                             IF path = tmpfile[c]
                             THEN [content |-> body, writer |-> c]
                             ELSE fs[path]]
                 /\ pc' = [pc EXCEPT ![c] = "read"]
                 /\ UNCHANGED outcome
    /\ UNCHANGED <<now, call, tmpfile, graph, invoked>>

\* Lines 332-339: the reader the chain selects reads the file at tmpfile.
QueryRead(c) ==
    /\ pc[c] = "read"
    /\ LET reader == Dispatch(call[c].params)
       IN  IF reader = NoReader
           THEN /\ pc' = [pc EXCEPT ![c] = "remove"]
                /\ UNCHANGED <<graph, invoked, outcome>>
           ELSE /\ invoked' = [invoked EXCEPT ![c] = Append(@, reader)]
                /\ \E o \in ReaderOutcomes(reader, FileAt(tmpfile[c])) :
                     IF o.kind = "raise"
                     THEN /\ outcome' = [outcome EXCEPT ![c] = o]
                          /\ pc' = [pc EXCEPT ![c] = "done"]
                          /\ UNCHANGED graph
                     ELSE /\ graph' = [graph EXCEPT ![c] = o.value]
                          /\ pc' = [pc EXCEPT ![c] = "remove"]
                          /\ UNCHANGED outcome
    /\ UNCHANGED <<now, fs, call, tmpfile, response>>

\* Lines 340-341: os.remove(tmpfile); return graph
QueryRemove(c) ==
    /\ pc[c] = "remove"
    /\ IF tmpfile[c] \notin DOMAIN fs
       THEN /\ outcome' = [outcome EXCEPT ![c] = Raise("FileNotFoundError")]
            /\ UNCHANGED fs
       ELSE /\ fs' = [path \in DOMAIN fs \ {tmpfile[c]} |-> fs[path]]
            /\ outcome' = [outcome EXCEPT ![c] =
                             IF graph[c] = Unbound
                             THEN Raise("UnboundLocalError")
                             ELSE Return(graph[c])]
    /\ pc' = [pc EXCEPT ![c] = "done"]
    /\ UNCHANGED <<now, call, tmpfile, response, graph, invoked>>

----------------------------------------------------------------------------
(* The specifications                                                      *)

Init == SifInit /\ QueryInit

Next ==
    \/ Tick /\ UNCHANGED sifvars
    \/ \E c \in Callers : QueryBegin(c) /\ UNCHANGED sifvars
    \/ \E c \in Callers : QueryDownload(c) /\ UNCHANGED sifvars
    \/ \E c \in Callers : QueryRead(c) /\ UNCHANGED sifvars
    \/ \E c \in Callers : QueryRemove(c) /\ UNCHANGED sifvars

\* Concurrent graph queries
Spec == Init /\ [][Next]_vars

SifNext ==
    \/ SifIsolatedLine /\ UNCHANGED queryvars
    \/ SifRecordLine /\ UNCHANGED queryvars
    \/ SifReturn /\ UNCHANGED queryvars

\* read_sif on one file
SifSpec == Init /\ [][SifNext]_vars

----------------------------------------------------------------------------
(* What the claims about read_sif speak of, computed from the file alone   *)

Items(i) == Tokenize(text[i])

Targets(items) == SubSeq(items, 3, Len(items))

Returned == result # NoGraph

Raised == sif.error # NoError

\* Every non-blank line has one token or at least three.
WellFormedText ==
    \A i \in DOMAIN text : Len(Items(i)) # 2

\* The identifiers on one-token lines, and the sources and targets of the
\* lines with at least three tokens.
IdentifiersOf(items) ==
    IF Len(items) = 1 THEN {items[1]}
    ELSE IF Len(items) >= 3 THEN {items[1]} \cup Range(Targets(items))
    ELSE {}

ExpectedIds == UNION {IdentifiersOf(Items(i)) : i \in DOMAIN text}

\* One <<source, target, relation>> per target of every line with at least
\* three tokens, in line order and then target order.
RECURSIVE ExpectedEdgesFrom(_)
ExpectedEdgesFrom(lines) ==
    IF lines = <<>> THEN <<>>
    ELSE LET items == Tokenize(Head(lines))
             here  == IF Len(items) >= 3
                      THEN [j \in 1..(Len(items) - 2) |->
                              <<items[1], items[j + 2], items[2]>>]
                      ELSE <<>>
         IN  here \o ExpectedEdgesFrom(Tail(lines))

RECURSIVE TargetCount(_)
TargetCount(lines) ==
    IF lines = <<>> THEN 0
    ELSE LET n == Len(Tokenize(Head(lines)))
         IN  (IF n >= 2 THEN n - 2 ELSE 0) + TargetCount(Tail(lines))

\* The identifiers in first-occurrence order: line order, and within a line
\* the source before the targets.
RECURSIVE Dedup(_, _)
Dedup(s, seen) ==
    IF s = <<>> THEN <<>>
    ELSE IF Head(s) \in seen THEN Dedup(Tail(s), seen)
    ELSE <<Head(s)>> \o Dedup(Tail(s), seen \cup {Head(s)})

RECURSIVE OccurrencesFrom(_)
OccurrencesFrom(lines) ==
    IF lines = <<>> THEN <<>>
    ELSE LET items == Tokenize(Head(lines))
             here  == IF items = <<>> THEN <<>>
                      ELSE <<items[1]>> \o Targets(items)
         IN  here \o OccurrencesFrom(Tail(lines))

FirstSeen == Dedup(OccurrencesFrom(text), {})

NotBlank(line) == Tokenize(line) # <<>>

----------------------------------------------------------------------------
(* Claims about read_sif, under SifSpec                                    *)

\* C1: for a file whose non-blank lines each have one token or at least
\* three, read_sif returns a graph whose vertices are exactly the distinct
\* identifiers on one-token lines and the sources and targets, each once;
\* with only one-token lines there are as many vertices as distinct tokens
\* and no edge.
C1_VerticesAreTheIdentifiers ==
    WellFormedText =>
        /\ ~Raised
        /\ Returned =>
             /\ IsInjective(result.vs)
             /\ Range(result.vs) = ExpectedIds
             /\ (\A i \in DOMAIN text : Len(Items(i)) <= 1) =>
                  /\ Len(result.vs) = Cardinality(ExpectedIds)
                  /\ Len(result.es) = 0

\* The edges of the returned graph are the expected ones, in order, by index.
EdgesAsExpected ==
    LET expected == ExpectedEdgesFrom(text)
    IN  /\ Len(result.es) = Len(expected)
        /\ Len(result.es) = TargetCount(text)
        /\ DOMAIN result.interaction = DOMAIN result.es
        /\ \A i \in DOMAIN result.es :
             /\ result.es[i][1] \in 0..(Len(result.vs) - 1)
             /\ result.es[i][2] \in 0..(Len(result.vs) - 1)
             /\ VertexName(result, result.es[i][1]) = expected[i][1]
             /\ VertexName(result, result.es[i][2]) = expected[i][2]
             /\ result.interaction[i] = expected[i][3]

\* C2: for any file, the edge list read_sif returns has, in line order and then target
\* order, one edge (index(source), index(target)) per target of every line
\* with at least three tokens, the i-th edge carrying that line's relation
\* as its 'interaction'; so there are as many edges as targets, duplicates
\* are kept, and every endpoint is the index of a vertex of the graph.
C2_EdgesInLineThenTargetOrder ==
    /\ ~Raised
    /\ Returned => EdgesAsExpected

\* C3, as claimed: once a line of exactly two tokens has been read, parsing
\* has failed with MalformedRecord and no graph is returned.
C3_TwoTokenLineIsMalformed ==
    (\E i \in DOMAIN text : Len(Items(i)) = 2) =>
        /\ sif.error = "MalformedRecord"
        /\ ~Returned

\* C3, amended: a line of exactly two tokens raises no error; its first token
\* is registered as a vertex and it adds no edge, and a graph that is
\* returned has that token among its vertices.
C3_TwoTokenLineRegistersItsSource ==
    /\ Raised => Len(Items(Len(text))) # 2
    /\ \A i \in DOMAIN text :
         (Len(Items(i)) = 2 /\ (i < Len(text) \/ ~Raised)) =>
            /\ Items(i)[1] \in sif.nodes
            /\ Returned => Items(i)[1] \in Range(result.vs)
    /\ Len(sif.edges) =
         TargetCount(IF Raised THEN SubSeq(text, 1, Len(text) - 1) ELSE text)

\* C3 witness: a graph returned for a file with a two-token line.
C3_Witness ==
    /\ Returned
    /\ \E i \in DOMAIN text : Len(Items(i)) = 2
    /\ \E i \in DOMAIN text : Len(Items(i)) >= 3

\* C4: a line with no token raises no error and contributes nothing: the
\* result is that of the file without such lines, and a file without records
\* gives the graph with no vertex and no edge.
C4_BlankLinesAreSkipped ==
    /\ Raised => NotBlank(text[Len(text)])
    /\ Returned =>
         Return(result) \in ReaderOutcomes("read_sif", File(SelectSeq(text, NotBlank)))
    /\ (Returned /\ \A i \in DOMAIN text : ~NotBlank(text[i])) =>
         result.vs = <<>> /\ result.es = <<>>

\* C5, as claimed: the index of every vertex of the returned graph is its
\* zero-based rank in first-occurrence order.
C5_IndexIsFirstOccurrenceRank ==
    Returned =>
        \A k \in DOMAIN result.vs :
            result.vs[k] \in Range(FirstSeen) =>
                ListIndex(FirstSeen, result.vs[k]) = k - 1

\* C5, amended: the index of every vertex is its zero-based position in the
\* graph's vertex list, which holds every registered identifier exactly once
\* in some order; the edges' index pairs name the registered edges' sources
\* and targets through it.
C5_IndexIsPositionInNodeList ==
    Returned =>
        /\ IsInjective(result.vs)
        /\ Range(result.vs) = sif.nodes
        /\ Len(result.vs) = Cardinality(sif.nodes)
        /\ DOMAIN result.es = DOMAIN sif.edges
        /\ \A i \in DOMAIN result.es : \A k \in 1..2 :
             /\ result.es[i][k] \in 0..(Len(result.vs) - 1)
             /\ VertexName(result, result.es[i][k]) = sif.edges[i][k]

\* C5 witness: a returned graph whose vertex order is not first-occurrence
\* order.
C5_Witness ==
    /\ Returned
    /\ Len(result.vs) = 2
    /\ Len(result.es) >= 1
    /\ result.vs # FirstSeen

----------------------------------------------------------------------------
(* Claims about the graph query, under Spec                                *)

Done(c) == pc[c] = "done"

Downloaded(c) == response[c].status_code = HttpOk

HasTag(c, tags) ==
    "format" \in DOMAIN call[c].params /\ call[c].params["format"] \in tags

NoTag(c) == pc[c] # "idle" /\ "format" \notin DOMAIN call[c].params

\* The reader that matches a tag
MatchingReader(c) ==
    IF NoTag(c) \/ HasTag(c, {"gml"}) THEN "read_gml"
    ELSE IF HasTag(c, {"graphml"}) THEN "read_graphml"
    ELSE "read_sif"

\* How the call of c can end when it runs alone with the response it got.
SoloOutcomes(c) ==
    LET reader == Dispatch(call[c].params)
    IN  IF reader = NoReader THEN {Raise("UnboundLocalError")}
        ELSE ReaderOutcomes(reader, File(response[c].content))

\* C6: a query with format 'lemon' fails with UnsupportedFormat whatever was
\* downloaded; it never returns an empty or null result.
C6_LemonFailsUnsupported ==
    \A c \in Callers :
        (Done(c) /\ Downloaded(c) /\ HasTag(c, {"lemon"})) =>
            outcome[c] = Raise("UnsupportedFormat")

\* C7: a query whose tag is none of gml, graphml, lemon, sif fails with
\* UnknownFormat, and no reader is invoked for it.
C7_UnknownTagFailsUnknownFormat ==
    \A c \in Callers :
        (Done(c) /\ Downloaded(c)
              /\ HasTag(c, FormatTags \ {"gml", "graphml", "lemon", "sif"})) =>
            /\ outcome[c] = Raise("UnknownFormat")
            /\ invoked[c] = <<>>

\* C8, as claimed: every query whose tag is absent or one of gml, graphml,
\* sif invokes exactly one reader, once, the one matching the tag (GML, and
\* a file named .gml, when there is no tag), and returns its result.
C8_ExactlyOneMatchingReader ==
    \A c \in Callers :
        (Done(c) /\ (NoTag(c) \/ HasTag(c, {"gml", "graphml", "sif"}))) =>
            /\ invoked[c] = <<MatchingReader(c)>>
            /\ NoTag(c) => tmpfile[c][5] = "gml"
            /\ outcome[c] = Return(graph[c])

\* C8, amended: such a query invokes no reader before its download has
\* succeeded and none at all when it fails; once past the dispatch it has
\* invoked exactly one reader, once, the one matching the tag (GML, and a
\* file named .gml, when there is no tag; the request carries the caller's
\* parameters as they are); and if it returns, it returns what that reader
\* returned.
C8_OneMatchingReaderAfterDownload ==
    \A c \in Callers :
        (NoTag(c) \/ HasTag(c, {"gml", "graphml", "sif"})) =>
            /\ (pc[c] \in {"download", "read"} \/ (Done(c) /\ ~Downloaded(c)))
                  => invoked[c] = <<>>
            /\ (pc[c] = "remove" \/ (Done(c) /\ Downloaded(c)))
                  => invoked[c] = <<MatchingReader(c)>>
            /\ NoTag(c) => tmpfile[c][5] = "gml"
            /\ HasTag(c, {"gml", "graphml", "sif"})
                  => tmpfile[c][5] = call[c].params["format"]
            /\ pc[c] \in {"read", "remove", "done"}
                  => response[c].params = call[c].params
            /\ outcome[c].kind = "return" =>
                  /\ graph[c] # Unbound
                  /\ outcome[c].value = graph[c]
                  /\ graph[c].kind = "igraph" <=> MatchingReader(c) # "read_sif"
                  /\ graph[c].kind = "igraph" => graph[c].reader = MatchingReader(c)

\* C8 witness: a query without a tag has returned what read_gml returned.
C8_Witness ==
    \E c \in Callers :
        /\ Done(c)
        /\ NoTag(c)
        /\ invoked[c] = <<"read_gml">>
        /\ outcome[c].kind = "return"

\* C9: concurrent queries are independent: each call that downloaded ends as
\* it would alone, with the graph parsed from its own content, and does not
\* fail or read other content because of the other call's temporary file.
C9_ConcurrentQueriesIndependent ==
    \A c \in Callers :
        (Done(c) /\ Downloaded(c)) => outcome[c] \in SoloOutcomes(c)

\* C10: when a query has finished, however it ended, no temporary file it
\* wrote still exists; and a failed download writes no file and invokes no
\* reader.
C10_TemporaryFilesAreRemoved ==
    \A c \in Callers :
        Done(c) =>
            /\ \A path \in DOMAIN fs : fs[path].writer # c
            /\ outcome[c] = Raise("UniPaxException") => invoked[c] = <<>>

====
